---- MODULE Spec2Model ----
(***************************************************************************)
(* Weekly office-attendance compliance (signin.py).                        *)
(*                                                                         *)
(* A run of main(): the password gate (check_password, password_entered),  *)
(* then the roster, the PTO calendar and the uploaded sign-in rows are     *)
(* read, the rows are parsed and the week window resolved                  *)
(* (load_signin_data, which calls calculate_date_range), the batch is      *)
(* rejected when it covers more than 7 days, otherwise every roster row is *)
(* aggregated (process_employee_signin, which calls get_pto_dates), the    *)
(* rows with REQUIRED == 0 are dropped (process_signin) and the summary is *)
(* shown through the sidebar filters.  main.py, the earlier copy of the    *)
(* script, is run on the same inputs.                                      *)
(*                                                                         *)
(* Values.  A datetime is [ord, minute]: the proleptic Gregorian ordinal   *)
(* of its date (datetime.toordinal) and the minute of its day.  An         *)
(* unparsed "In time" cell is the record [m, d, Y, I, M, p] of its fields  *)
(* (DATE_FORMAT), an unparsed leave date is <<year, month, day>>           *)
(* ("%Y-%m-%d").  A string made by "/".join or ", ".join is the sequence   *)
(* of the joined labels; the fallback strings are one-element sequences.   *)
(***************************************************************************)
EXTENDS Integers, Sequences, FiniteSets

VARIABLES
    pc,                 \* position of the script: "start", "gate", "typed", "authed", "upload", "combined",
                        \* "stopped", "loaded", "processed", "displayed", "main_py"
    session_state,      \* st.session_state: the keys present and their values
    uploaded_files,     \* the data rows of the uploaded CSV file(s), "In time" as text
    employees_df,       \* the roster
    pto_calendar,       \* the PTO request list
    signin_df,          \* combined_df: as combined, then as calculate_date_range leaves it
    window,             \* what calculate_date_range returned
    signin_summary,     \* the records built by process_signin
    filtered_df,        \* the rows display_signin_summary shows
    signin_table        \* main.py: the table it renders

vars == <<pc, session_state, uploaded_files, employees_df, pto_calendar, signin_df, window,
          signin_summary, filtered_df, signin_table>>

inputs == <<uploaded_files, employees_df, pto_calendar>>

----------------------------------------------------------------------------
(* Bounds of the input domains *)

MaxSignins == 2
MaxRoster == 2
MaxRequired == 3
MaxPtoRecords == 2

----------------------------------------------------------------------------
(* Calendar arithmetic of datetime *)

Min(a, b) == IF a < b THEN a ELSE b
Max(a, b) == IF a > b THEN a ELSE b

IsLeap(y) == (y % 4 = 0) /\ ((y % 100 # 0) \/ (y % 400 = 0))

DaysInMonth(y, m) ==
    IF m = 2 THEN (IF IsLeap(y) THEN 29 ELSE 28)
    ELSE IF m \in {4, 6, 9, 11} THEN 30 ELSE 31

DaysBeforeYear(y) ==
    LET p == y - 1 IN p * 365 + (p \div 4) - (p \div 100) + (p \div 400)

RECURSIVE DaysBeforeMonth(_, _)
DaysBeforeMonth(y, m) ==
    IF m = 1 THEN 0 ELSE DaysBeforeMonth(y, m - 1) + DaysInMonth(y, m - 1)

\* date(y, m, d).toordinal()
ymd2ord(y, m, d) == DaysBeforeYear(y) + DaysBeforeMonth(y, m) + d

\* date.fromordinal(n) as <<year, month, day>>
ord2ymd(n) ==
    LET n0   == n - 1
        n400 == n0 \div 146097
        r400 == n0 % 146097
        n100 == r400 \div 36524
        r100 == r400 % 36524
        n4   == r100 \div 1461
        r4   == r100 % 1461
        n1   == r4 \div 365
        r1   == r4 % 365
        year == n400 * 400 + n100 * 100 + n4 * 4 + n1 + 1
    IN  IF n1 = 4 \/ n100 = 4
        THEN <<year - 1, 12, 31>>
        ELSE LET month == CHOOSE m \in 1..12 :
                              /\ DaysBeforeMonth(year, m) <= r1
                              /\ r1 < DaysBeforeMonth(year, m) + DaysInMonth(year, m)
             IN  <<year, month, r1 - DaysBeforeMonth(year, month) + 1>>

\* datetime.weekday(): Monday is 0, Sunday is 6
weekday(dt) == (dt.ord + 6) % 7

DayLabels == <<"Mon", "Tue", "Wed", "Thu", "Fri", "Sat", "Sun">>

\* strftime("%a")
strftime_a(dt) == DayLabels[weekday(dt) + 1]

\* strftime("%m/%d/%Y"): the zero-padded text, as <<month, day, year>>
strftime_mdY(dt) ==
    LET c == ord2ymd(dt.ord) IN <<c[2], c[3], c[1]>>

\* pd.to_datetime(text, format=DATE_FORMAT): "%I" is the 12-hour clock, 12 is hour 0 of its half
to_datetime(t) ==
    [ord    |-> ymd2ord(t.Y, t.m, t.d),
     minute |-> ((t.I % 12) + (IF t.p = "PM" THEN 12 ELSE 0)) * 60 + t.M]

\* datetime.strptime(text, "%Y-%m-%d").replace(hour=1, minute=0, second=0, microsecond=0)
strptime_Ymd(s) == [ord |-> ymd2ord(s[1], s[2], s[3]), minute |-> 60]

\* dt + timedelta(days=k)
plus_days(dt, k) == [ord |-> dt.ord + k, minute |-> dt.minute]

\* a < b on datetimes
dt_less(a, b) == a.ord < b.ord \/ (a.ord = b.ord /\ a.minute < b.minute)

\* (a - b).days: the whole days of the difference, rounded down
timedelta_days(a, b) == ((a.ord - b.ord) * 1440 + (a.minute - b.minute)) \div 1440

----------------------------------------------------------------------------
(* Date-range resolver *)

in_times(df) == {df[i].In_time : i \in DOMAIN df}

\* Series.min() / Series.max()
series_min(S) == CHOOSE a \in S : \A b \in S : ~dt_less(b, a)
series_max(S) == CHOOSE a \in S : \A b \in S : ~dt_less(a, b)

\* combined_df["In time"] = pd.to_datetime(combined_df["In time"], format=DATE_FORMAT)
parse_in_time(df) ==
    [i \in DOMAIN df |-> [Name |-> df[i].Name, In_time |-> to_datetime(df[i].In_time)]]

\* variant: the offset forgets the "+ 1", anchoring the week on Monday
start_date_of_MondayAnchor(min_date) ==
    LET s == [ord |-> min_date.ord - weekday(min_date), minute |-> 60]
    IN  IF weekday(min_date) = 6 THEN plus_days(s, 7) ELSE s

\* variant: no correction for a Sunday minimum, which lands on the Sunday before
start_date_of_NoSundayShift(min_date) ==
    [ord |-> min_date.ord - (weekday(min_date) + 1), minute |-> 60]

start_date_of(min_date) ==
    LET s == [ord |-> min_date.ord - (weekday(min_date) + 1), minute |-> 60]
    IN  IF weekday(min_date) = 6 THEN plus_days(s, 7) ELSE s

more_than_7_days_of(min_date, max_date) == timedelta_days(max_date, min_date) > 7

calculate_date_range(df) ==
    LET min_date == series_min(in_times(df))
        max_date == series_max(in_times(df))
        start    == start_date_of(min_date)
    IN  [start_date       |-> start,
         end_date         |-> plus_days(start, 6),
         more_than_7_days |-> more_than_7_days_of(min_date, max_date),
         min_date         |-> min_date,
         max_date         |-> max_date]

\* pd.date_range(start=start_date, end_date): one timestamp a day, at start's time of day
date_range_of(w) ==
    {plus_days(w.start_date, k) : k \in 0..(w.end_date.ord - w.start_date.ord)}

----------------------------------------------------------------------------
(* PTO matcher *)

\* leave_date.weekday() in [1, 2, 3] and leave_date in date_range
pto_qualifies(leave_date, date_range) ==
    weekday(leave_date) \in {1, 2, 3} /\ leave_date \in date_range

\* the leave dates of one PTO record, parsed, that qualify
leave_dates_of(pto, date_range) ==
    LET parsed == [k \in DOMAIN pto.leaveDates |-> strptime_Ymd(pto.leaveDates[k])]
    IN  SelectSeq(parsed, LAMBDA d : pto_qualifies(d, date_range))

\* variant: stops at the first request found under the name
RECURSIVE get_pto_dates_FirstRecordOnly(_, _, _)
get_pto_dates_FirstRecordOnly(calendar, pto_name, date_range) ==
    IF calendar = <<>> THEN <<>>
    ELSE IF Head(calendar).name = pto_name
         THEN leave_dates_of(Head(calendar), date_range)
         ELSE get_pto_dates_FirstRecordOnly(Tail(calendar), pto_name, date_range)

RECURSIVE get_pto_dates(_, _, _)
get_pto_dates(calendar, pto_name, date_range) ==
    IF calendar = <<>> THEN <<>>
    ELSE (IF Head(calendar).name = pto_name
          THEN leave_dates_of(Head(calendar), date_range)
          ELSE <<>>) \o get_pto_dates(Tail(calendar), pto_name, date_range)

----------------------------------------------------------------------------
(* Attendance aggregator *)

day_order == <<"Tue", "Wed", "Thu">>

CoreLabels == {"Tue", "Wed", "Thu"}

\* variant: the rows are not narrowed to the employee
present_days_of_AnyName(df, name) ==
    SelectSeq(df, LAMBDA r : strftime_a(r.In_time) \in CoreLabels)

\* signin_df[signin_df["Name"] == name], then the rows whose "%a" is Tue, Wed or Thu
present_days_of(df, name) ==
    SelectSeq(df, LAMBDA r : r.Name = name /\ strftime_a(r.In_time) \in CoreLabels)

\* a < b on "%m/%d/%Y" strings: character by character, i.e. month, then day, then year
str_less(a, b) ==
    \/ a[1] < b[1]
    \/ a[1] = b[1] /\ a[2] < b[2]
    \/ a[1] = b[1] /\ a[2] = b[2] /\ a[3] < b[3]

\* sorted(S) for a collection of date strings
RECURSIVE sorted_strs(_)
sorted_strs(S) ==
    IF S = {} THEN <<>>
    ELSE LET m == CHOOSE x \in S : \A y \in S : ~str_less(y, x)
         IN  <<m>> \o sorted_strs(S \ {m})

\* list(set(present_days["In time"].dt.strftime("%m/%d/%Y").tolist()))
present_dates_of(present_days) ==
    {strftime_mdY(present_days[i].In_time) : i \in DOMAIN present_days}

\* sorted(set(present_days["In time"].dt.strftime("%a")), key=day_order.index)
present_day_names_of(present_days) ==
    SelectSeq(day_order,
              LAMBDA l : \E i \in DOMAIN present_days : strftime_a(present_days[i].In_time) = l)

\* sorted(pto_dates, key=lambda date: day_order.index(date.strftime("%a"))): a stable sort
sort_by_day_order(dates) ==
    SelectSeq(dates, LAMBDA d : strftime_a(d) = "Tue")
        \o SelectSeq(dates, LAMBDA d : strftime_a(d) = "Wed")
        \o SelectSeq(dates, LAMBDA d : strftime_a(d) = "Thu")

\* variant: no floor at zero
updated_required_days_of_NoFloor(required_days, pto_count) == required_days - pto_count

updated_required_days_of(required_days, pto_count) == Max(0, required_days - pto_count)

present_count_of(updated_required_days, present_days) ==
    Min(updated_required_days, Len(present_days))

\* variant: the ratio test of main.py, len(present_days) / max(1, required) < 1
status_ok_of_RatioTest(present_count, updated_required_days) ==
    ~(present_count < Max(1, updated_required_days))

status_ok_of(present_count, updated_required_days) ==
    ~(present_count < updated_required_days)

\* variant: the list is not cleared for a passing employee
absent_days_of_NotCleared(present_day_names, status_ok) ==
    SelectSeq(day_order,
              LAMBDA item : \A i \in DOMAIN present_day_names : present_day_names[i] # item)

\* variant: the list is cleared for a failing employee instead
absent_days_of_ClearedOnFail(present_day_names, status_ok) ==
    IF ~status_ok THEN <<>>
    ELSE SelectSeq(day_order,
                   LAMBDA item : \A i \in DOMAIN present_day_names : present_day_names[i] # item)

absent_days_of(present_day_names, status_ok) ==
    IF status_ok THEN <<>>
    ELSE SelectSeq(day_order,
                   LAMBDA item : \A i \in DOMAIN present_day_names : present_day_names[i] # item)

\* sep.join(labels) if labels else fallback
join_or(labels, fallback) == IF labels # <<>> THEN labels ELSE <<fallback>>

process_employee_signin(row, df, date_range, calendar) ==
    LET required_days         == row.REQUIRED_DAYS
        present_days          == present_days_of(df, row.FULL_NAME)
        present_dates         == present_dates_of(present_days)
        present_day_names     == present_day_names_of(present_days)
        pto_dates             == sort_by_day_order(get_pto_dates(calendar, row.JW_NAME, date_range))
        pto_count             == Len(pto_dates)
        updated_required_days == updated_required_days_of(required_days, pto_count)
        present_count         == present_count_of(updated_required_days, present_days)
        status_ok             == status_ok_of(present_count, updated_required_days)
        absent_days           == absent_days_of(present_day_names, status_ok)
    IN  [NAME           |-> row.FULL_NAME,
         DEPT           |-> row.DEPARTMENT,
         OFFICE         |-> row.OFFICE,
         STATUS         |-> IF status_ok THEN "O" ELSE "X",
         SIGNIN_DAYS    |-> join_or(present_day_names, "NO SIGNIN"),
         ABSENT_DAYS    |-> join_or(absent_days, "N/A"),
         SIGNIN_DETAILS |-> [present |-> present_count,
                             required |-> updated_required_days,
                             ptos |-> pto_count],
         PTO_DAYS       |-> join_or([k \in DOMAIN pto_dates |-> strftime_a(pto_dates[k])], "N/A"),
         USED_PTOs      |-> Len(pto_dates),
         PRESENT        |-> sorted_strs(present_dates),
         REQUIRED       |-> required_days]

\* variant: the filter of main.py, on the adjusted requirement shown in the details
keep_required_ByAdjusted(summary) ==
    SelectSeq(summary, LAMBDA rec : rec.SIGNIN_DETAILS.required # 0)

\* [row for row in signin_summary if row["REQUIRED"] != 0]
keep_required(summary) == SelectSeq(summary, LAMBDA rec : rec.REQUIRED # 0)

\* get_filters: the options of the four select boxes
FilterOptions ==
    [STATUS    : {"All", "O", "X"},
     OFFICE    : {"All", "Brooklyn, NY", "Denver, CO"},
     NO_SIGNIN : {"All", "NO SIGNIN"},
     USED_PTOs : {"All", "None used", "PTO used"}]

\* apply_filters: one filter after the other; an option other than "All" keeps the rows whose
\* column equals it, except for USED_PTOs, which has its own logic
apply_filters(df, selected) ==
    LET by_status == IF selected.STATUS = "All" THEN df
                     ELSE SelectSeq(df, LAMBDA rec : rec.STATUS = selected.STATUS)
        by_office == IF selected.OFFICE = "All" THEN by_status
                     ELSE SelectSeq(by_status, LAMBDA rec : rec.OFFICE = selected.OFFICE)
        by_signin == IF selected.NO_SIGNIN = "All" THEN by_office
                     ELSE SelectSeq(by_office, LAMBDA rec : rec.SIGNIN_DAYS = <<selected.NO_SIGNIN>>)
    IN  IF selected.USED_PTOs = "None used"
        THEN SelectSeq(by_signin, LAMBDA rec : rec.USED_PTOs = 0)
        ELSE IF selected.USED_PTOs = "PTO used"
        THEN SelectSeq(by_signin, LAMBDA rec : rec.USED_PTOs \in {1, 2, 3})
        ELSE by_signin

----------------------------------------------------------------------------
(* main.py, the earlier copy of the script: it keeps the parsed frame only  *)
(* for the week, and aggregates over the text re-read from the combined CSV *)

\* str.upper() on a "%a" label
upper(label) ==
    CASE label = "Mon" -> "MON" [] label = "Tue" -> "TUE" [] label = "Wed" -> "WED"
      [] label = "Thu" -> "THU" [] label = "Fri" -> "FRI" [] label = "Sat" -> "SAT"
      [] label = "Sun" -> "SUN"

\* start_date_of_week: a Sunday minimum is moved one day on before the offset is taken
start_date_of_week_of(min_date) ==
    LET m == IF weekday(min_date) = 6 THEN plus_days(min_date, 1) ELSE min_date
    IN  [ord |-> m.ord - (weekday(m) + 1), minute |-> 60]

\* pd.date_range(start=start_date_of_week, end=end_date_of_week)
main_date_range(combined_df) ==
    LET start_date_of_week == start_date_of_week_of(series_min(in_times(parse_in_time(combined_df))))
    IN  {plus_days(start_date_of_week, k) : k \in 0..6}

\* the records of the employee whose "%a" is not SUN, MON, FRI or SAT; "In time" stays text
main_present_days(signin_df_text, name) ==
    SelectSeq(signin_df_text,
              LAMBDA r : r.Name = name
                         /\ upper(strftime_a(to_datetime(r.In_time)))
                                \notin {"SUN", "MON", "FRI", "SAT"})

\* sorted by week order, narrowed to the core days, duplicates removed, or ['NO SIGNIN']
main_present_day_names(present_days) ==
    LET names == SelectSeq(<<"TUE", "WED", "THU">>,
                           LAMBDA l : \E i \in DOMAIN present_days :
                                         upper(strftime_a(to_datetime(present_days[i].In_time))) = l)
    IN  IF Len(names) = 0 THEN <<"NO SIGNIN">> ELSE names

\* the loop over pto_calendar: every qualifying leave date under the name is appended
RECURSIVE main_pto_dates(_, _, _)
main_pto_dates(calendar, pto_name, date_range) ==
    IF calendar = <<>> THEN <<>>
    ELSE (IF Head(calendar).name = pto_name
          THEN leave_dates_of(Head(calendar), date_range)
          ELSE <<>>) \o main_pto_dates(Tail(calendar), pto_name, date_range)

\* sorted([date.strftime('%a').upper() for date in pto_dates]): "THU" < "TUE" < "WED"
sorted_pto_days_of(pto_dates) ==
    LET labels == [k \in DOMAIN pto_dates |-> upper(strftime_a(pto_dates[k]))]
    IN  SelectSeq(labels, LAMBDA l : l = "THU") \o SelectSeq(labels, LAMBDA l : l = "TUE")
            \o SelectSeq(labels, LAMBDA l : l = "WED")

\* present_date[:10], the "%m/%d/%Y" part of the text
date_part(t) == <<t.m, t.d, t.Y>>

\* sorted(list of date strings), repeated strings kept
RECURSIVE sorted_list(_, _)
sorted_list(strs, S) ==
    IF S = {} THEN <<>>
    ELSE LET m == CHOOSE x \in S : \A y \in S : ~str_less(y, x)
         IN  SelectSeq(strs, LAMBDA x : x = m) \o sorted_list(strs, S \ {m})

\* one pass of the loop over employees_df.iterrows()
main_summary_row(row, signin_df_text, date_range, calendar) ==
    LET required_days         == row.REQUIRED_DAYS
        present_days          == main_present_days(signin_df_text, row.FULL_NAME)
        present_dates         == [k \in DOMAIN present_days |-> date_part(present_days[k].In_time)]
        pto_dates             == main_pto_dates(calendar, row.JW_NAME, date_range)
        pto_count             == Len(pto_dates)
        updated_required_days == Max(0, required_days - pto_count)
        sorted_pto_days       == sorted_pto_days_of(pto_dates)
    IN  [NAME           |-> row.FULL_NAME,
         DEPT           |-> row.DEPARTMENT,
         OFFICE         |-> row.OFFICE,
         \* len(present_days) / max(1, updated_required_days) < 1
         STATUS         |-> IF Len(present_days) < Max(1, updated_required_days) THEN "X" ELSE "O",
         SIGNIN_DETAILS |-> [present |-> Min(updated_required_days, Len(present_days)),
                             required |-> updated_required_days,
                             ptos |-> pto_count],
         SIGNIN_DAYS    |-> main_present_day_names(present_days),
         PTO_DAYS       |-> IF Len(sorted_pto_days) > 0 THEN sorted_pto_days ELSE <<"N/A">>,
         USED_PTOs      |-> Len(sorted_pto_days),
         PRESENT        |-> sorted_list(present_dates,
                                        {present_dates[k] : k \in DOMAIN present_dates})]

main_process_signin(signin_df_text, date_range, roster, calendar) ==
    [i \in DOMAIN roster |-> main_summary_row(roster[i], signin_df_text, date_range, calendar)]

\* signin_table[signin_table['SIGNIN DETAILS'].apply(lambda x: int(x.split(' ')[2]) != 0)]
main_filter(table) == SelectSeq(table, LAMBDA rec : rec.SIGNIN_DETAILS.required # 0)

\* sort_values(by=['OFFICE', 'DEPT', 'NAME']), a stable sort; the offices of the rosters used
\* here are "Brooklyn, NY" < "Denver, CO" and fix department and name
main_sort_values(table) ==
    SelectSeq(table, LAMBDA rec : rec.OFFICE = "Brooklyn, NY")
        \o SelectSeq(table, LAMBDA rec : rec.OFFICE = "Denver, CO")

----------------------------------------------------------------------------
(* Inputs *)

Staff == {"A. Smith", "B. Jones"}

roster_row(name, required_days) ==
    [FULL_NAME     |-> name,
     JW_NAME       |-> IF name = "A. Smith" THEN "Smith, A" ELSE "Jones, B",
     DEPARTMENT    |-> IF name = "A. Smith" THEN "Design" ELSE "Tech",
     OFFICE        |-> IF name = "A. Smith" THEN "Brooklyn, NY" ELSE "Denver, CO",
     REQUIRED_DAYS |-> required_days]

signin_row(name, ymd, clock) ==
    [Name |-> name,
     In_time |-> [m |-> ymd[2], d |-> ymd[3], Y |-> ymd[1],
                  I |-> clock[1], M |-> clock[2], p |-> clock[3]]]

SeqsUpTo(S, lo, hi) == UNION {[1..k -> S] : k \in lo..hi}

June2024(lo, hi) == {<<2024, 6, d>> : d \in lo..hi}

Clocks == {<<9, 0, "AM">>, <<5, 30, "PM">>}

\* batches of one employee over 2024-06-01 and 2024-06-08 .. 2024-06-16, morning and evening
RangeRows ==
    {signin_row("A. Smith", d, c) : d \in June2024(1, 1) \cup June2024(8, 16), c \in Clocks}

RangeInputs ==
    {<<log, <<roster_row("A. Smith", 3)>>, <<>>>> : log \in SeqsUpTo(RangeRows, 1, MaxSignins)}

\* batches within the week of 2024-06-09 for one roster row
CoreWeekRows ==
    {signin_row(n, d, <<9, 0, "AM">>) : n \in Staff, d \in June2024(10, 12)}

SmallCalendars ==
    {<<>>,
     <<[name |-> "Smith, A", leaveDates |-> <<<<2024, 6, 13>>>>]>>,
     <<[name |-> "Smith, A", leaveDates |-> <<<<2024, 6, 12>>, <<2024, 6, 13>>>>]>>}

AggInputs ==
    {<<log, <<roster_row("A. Smith", req)>>, cal>> :
        log \in SeqsUpTo(CoreWeekRows, 1, MaxSignins),
        req \in 0..MaxRequired,
        cal \in SmallCalendars}

\* PTO calendars of up to MaxPtoRecords requests
LeaveLists ==
    {<<<<2024, 6, 10>>>>, <<<<2024, 6, 12>>>>, <<<<2024, 6, 13>>>>, <<<<2024, 6, 20>>>>,
     <<<<2024, 6, 11>>, <<2024, 6, 12>>>>}

PtoRecords == {[name |-> n, leaveDates |-> l] : n \in {"Smith, A", "smith, a"}, l \in LeaveLists}

TueWedLog ==
    <<signin_row("A. Smith", <<2024, 6, 11>>, <<9, 0, "AM">>),
      signin_row("A. Smith", <<2024, 6, 12>>, <<9, 0, "AM">>)>>

PtoInputs ==
    {<<TueWedLog, <<roster_row("A. Smith", req)>>, cal>> :
        req \in 0..MaxRequired,
        cal \in SeqsUpTo(PtoRecords, 0, MaxPtoRecords)}

\* rosters of up to MaxRoster rows
RosterInputs ==
    {<<TueWedLog, roster, cal>> :
        roster \in SeqsUpTo({roster_row(n, req) : n \in Staff, req \in 0..MaxRequired},
                            1, MaxRoster),
        cal \in SmallCalendars}

\* batches of the week of 2024-12-29, which crosses the year boundary
YearEndRows ==
    {signin_row("A. Smith", d, <<9, 0, "AM">>) : d \in {<<2024, 12, 31>>, <<2025, 1, 1>>, <<2025, 1, 2>>}}

YearEndInputs ==
    {<<log, <<roster_row("A. Smith", 3)>>, <<>>>> : log \in SeqsUpTo(YearEndRows, 1, MaxSignins + 1)}

\* a batch for A. Smith with rows and PTO records of somebody the roster does not list
ForeignRows ==
    {signin_row("B. Jones", d, <<9, 0, "AM">>) : d \in {<<2024, 6, 4>>, <<2024, 6, 12>>, <<2024, 6, 20>>}}

ForeignCalendars ==
    {<<[name |-> "Smith, A", leaveDates |-> <<<<2024, 6, 13>>>>]>>,
     <<[name |-> "Smith, A", leaveDates |-> <<<<2024, 6, 13>>>>],
       [name |-> "Jones, B", leaveDates |-> <<<<2024, 6, 12>>>>]>>}

ForeignInputs ==
    {<<<<signin_row("A. Smith", <<2024, 6, 11>>, <<9, 0, "AM">>)>> \o foreign,
       <<roster_row("A. Smith", 3)>>, cal>> :
        foreign \in SeqsUpTo(ForeignRows, 0, 1),
        cal \in ForeignCalendars}

\* all three core days signed in, against requirements up to one more than MaxRequired
TueWedThuLog ==
    <<signin_row("A. Smith", <<2024, 6, 11>>, <<9, 0, "AM">>),
      signin_row("A. Smith", <<2024, 6, 12>>, <<9, 0, "AM">>),
      signin_row("A. Smith", <<2024, 6, 13>>, <<9, 0, "AM">>)>>

FullWeekInputs ==
    {<<TueWedThuLog, <<roster_row("A. Smith", req)>>, <<>>>> : req \in 0..(MaxRequired + 1)}

Inputs ==
    RangeInputs \cup AggInputs \cup PtoInputs \cup RosterInputs \cup YearEndInputs
        \cup ForeignInputs \cup FullWeekInputs

----------------------------------------------------------------------------
(* The run *)

\* st.secrets["password"] and what a visitor may type
Secret == "letmein"

Typed == {"letmein", "guess"}

\* st.session_state.get(key, default)
ss_get(ss, key, default) == IF key \in DOMAIN ss THEN ss[key] ELSE default

\* st.session_state[key] = value
ss_set(ss, key, value) == [k \in DOMAIN ss \cup {key} |-> IF k = key THEN value ELSE ss[k]]

\* del st.session_state[key]
ss_del(ss, key) == [k \in DOMAIN ss \ {key} |-> ss[k]]

\* variant: whatever was typed is accepted
password_entered_AnyInput(ss) == ss_del(ss_set(ss, "password_correct", TRUE), "password")

\* password_entered, after the widget has stored the typed text under "password"
password_entered(ss) ==
    IF ss["password"] = Secret
    THEN ss_del(ss_set(ss, "password_correct", TRUE), "password")
    ELSE ss_set(ss_set(ss, "password_correct", FALSE), "password", "")

Init ==
    /\ pc = "start"
    /\ session_state = <<>>
    /\ uploaded_files = <<>>
    /\ employees_df = <<>>
    /\ pto_calendar = <<>>
    /\ signin_df = <<>>
    /\ window = <<>>
    /\ signin_summary = <<>>
    /\ filtered_df = <<>>
    /\ signin_table = <<>>

\* main: check_password; without a correct password the input is drawn and the run stops
CheckPassword ==
    /\ pc = "start"
    /\ IF ss_get(session_state, "password_correct", FALSE)
       THEN /\ pc' = "authed"
            /\ UNCHANGED session_state
       ELSE /\ pc' = "gate"
            /\ session_state' =
                   ss_set(session_state, "password", ss_get(session_state, "password", ""))
    /\ UNCHANGED <<inputs, signin_df, window, signin_summary, filtered_df, signin_table>>

\* the visitor changes the password input: the widget stores the text under its key
TextInput ==
    /\ pc = "gate"
    /\ \E text \in Typed :
          /\ text # session_state["password"]
          /\ session_state' = ss_set(session_state, "password", text)
    /\ pc' = "typed"
    /\ UNCHANGED <<inputs, signin_df, window, signin_summary, filtered_df, signin_table>>

\* on_change=password_entered runs, then the script starts again
PasswordEntered ==
    /\ pc = "typed"
    /\ session_state' = password_entered(session_state)
    /\ pc' = "start"
    /\ UNCHANGED <<inputs, signin_df, window, signin_summary, filtered_df, signin_table>>

\* main: load_data and the file uploader
LoadInputs ==
    /\ pc = "authed"
    /\ \E in \in Inputs :
          /\ uploaded_files' = in[1]
          /\ employees_df' = in[2]
          /\ pto_calendar' = in[3]
    /\ pc' = "upload"
    /\ UNCHANGED <<session_state, signin_df, window, signin_summary, filtered_df, signin_table>>

\* load_signin_data: combine_csv_files
CombineCsvFiles ==
    /\ pc = "upload"
    /\ signin_df' = uploaded_files
    /\ pc' = "combined"
    /\ UNCHANGED <<session_state, inputs, window, signin_summary, filtered_df, signin_table>>

\* load_signin_data: calculate_date_range parses "In time" in place and resolves the window;
\* a long batch is rejected
LoadSigninData ==
    /\ pc = "combined"
    /\ LET combined_df == parse_in_time(signin_df)
           w           == calculate_date_range(combined_df)
       IN  /\ signin_df' = combined_df
           /\ window' = w
           /\ pc' = IF w.more_than_7_days THEN "stopped" ELSE "loaded"
    /\ UNCHANGED <<session_state, inputs, signin_summary, filtered_df, signin_table>>

\* process_signin, one roster row of its comprehension
ProcessEmployeeSignin ==
    /\ pc = "loaded"
    /\ signin_df # <<>>
    /\ Len(signin_summary) < Len(employees_df)
    /\ signin_summary' =
           Append(signin_summary,
                  process_employee_signin(employees_df[Len(signin_summary) + 1],
                                          signin_df, date_range_of(window), pto_calendar))
    /\ UNCHANGED <<pc, session_state, inputs, signin_df, window, filtered_df, signin_table>>

\* process_signin, the filter on REQUIRED and the return
FilterRequired ==
    /\ pc = "loaded"
    /\ signin_df # <<>>
    /\ Len(signin_summary) = Len(employees_df)
    /\ signin_summary' = keep_required(signin_summary)
    /\ pc' = "processed"
    /\ UNCHANGED <<session_state, inputs, signin_df, window, filtered_df, signin_table>>

\* display_signin_summary: the options selected in the sidebar are applied to the summary
DisplaySigninSummary ==
    /\ pc = "processed"
    /\ \E selected \in FilterOptions : filtered_df' = apply_filters(signin_summary, selected)
    /\ pc' = "displayed"
    /\ UNCHANGED <<session_state, inputs, signin_df, window, signin_summary, signin_table>>

\* main.py run on the same inputs: the summary, its filter and its sort
MainPyRun ==
    /\ pc = "upload"
    /\ uploaded_files # <<>>
    /\ signin_table' =
           main_sort_values(
               main_filter(
                   main_process_signin(uploaded_files, main_date_range(uploaded_files),
                                       employees_df, pto_calendar)))
    /\ pc' = "main_py"
    /\ UNCHANGED <<session_state, inputs, signin_df, window, signin_summary, filtered_df>>

\* any widget interaction after a finished run starts the script again; only session_state stays
Rerun ==
    /\ pc \in {"stopped", "processed", "displayed", "main_py"}
    /\ pc' = "start"
    /\ uploaded_files' = <<>>
    /\ employees_df' = <<>>
    /\ pto_calendar' = <<>>
    /\ signin_df' = <<>>
    /\ window' = <<>>
    /\ signin_summary' = <<>>
    /\ filtered_df' = <<>>
    /\ signin_table' = <<>>
    /\ UNCHANGED session_state

Next ==
    \/ CheckPassword
    \/ TextInput
    \/ PasswordEntered
    \/ LoadInputs
    \/ CombineCsvFiles
    \/ LoadSigninData
    \/ ProcessEmployeeSignin
    \/ FilterRequired
    \/ DisplaySigninSummary
    \/ MainPyRun
    \/ Rerun

Spec == Init /\ [][Next]_vars

----------------------------------------------------------------------------
(* What the properties below measure, taken from the inputs as given *)

\* the calendar date of an uploaded row, as an ordinal
RawOrd(r) == ymd2ord(r.In_time.Y, r.In_time.m, r.In_time.d)

\* the instant of an uploaded row, in minutes
RawMinutes(r) == to_datetime(r.In_time).ord * 1440 + to_datetime(r.In_time).minute

IsCoreOrd(o) == (o + 6) % 7 \in {1, 2, 3}

LabelOfOrd(o) == IF (o + 6) % 7 = 1 THEN "Tue" ELSE IF (o + 6) % 7 = 2 THEN "Wed" ELSE "Thu"

\* the uploaded rows of an employee that fall on a Tuesday, Wednesday or Thursday
CoreEvents(name) ==
    {i \in DOMAIN uploaded_files :
        uploaded_files[i].Name = name /\ IsCoreOrd(RawOrd(uploaded_files[i]))}

CoreDates(name) == {RawOrd(uploaded_files[i]) : i \in CoreEvents(name)}

SignedLabels(name) == {LabelOfOrd(o) : o \in CoreDates(name)}

EarliestOrd == CHOOSE o \in {RawOrd(uploaded_files[i]) : i \in DOMAIN uploaded_files} :
                   \A j \in DOMAIN uploaded_files : o <= RawOrd(uploaded_files[j])

LatestOrd == CHOOSE o \in {RawOrd(uploaded_files[i]) : i \in DOMAIN uploaded_files} :
                 \A j \in DOMAIN uploaded_files : o >= RawOrd(uploaded_files[j])

\* max_timestamp - min_timestamp, exactly, in minutes
ExactSpanMinutes ==
    LET M == {RawMinutes(uploaded_files[i]) : i \in DOMAIN uploaded_files}
    IN  (CHOOSE a \in M : \A b \in M : a >= b) - (CHOOSE a \in M : \A b \in M : a <= b)

\* the leave-date entries of the calendar that count for a PTO name in the resolved window
QualifyingPto(pto_name) ==
    {e \in UNION {{<<r, k>> : k \in DOMAIN pto_calendar[r].leaveDates} : r \in DOMAIN pto_calendar} :
        /\ pto_calendar[e[1]].name = pto_name
        /\ LET d == pto_calendar[e[1]].leaveDates[e[2]]
               o == ymd2ord(d[1], d[2], d[3])
           IN  /\ IsCoreOrd(o)
               /\ window.start_date.ord <= o
               /\ o <= window.end_date.ord}

\* calculate_date_range has returned
Resolved == pc \in {"stopped", "loaded", "processed", "displayed"}

\* every roster row aggregated so far, with its record
Aggregated == IF pc = "loaded" THEN DOMAIN signin_summary ELSE {}

AbsentSet(rec) ==
    IF rec.ABSENT_DAYS = <<"N/A">> THEN {}
    ELSE {rec.ABSENT_DAYS[k] : k \in DOMAIN rec.ABSENT_DAYS}

----------------------------------------------------------------------------
(* Properties *)

\* C1: present_count is min(adjusted_requirement, number of distinct calendar dates with a
\* Tue/Wed/Thu sign-in of the employee): repeated sign-ins on one date count once.
C1_PresentCountsDistinctDates ==
    \A i \in Aggregated :
        signin_summary[i].SIGNIN_DETAILS.present =
            Min(signin_summary[i].SIGNIN_DETAILS.required,
                Cardinality(CoreDates(employees_df[i].FULL_NAME)))

\* C2: a batch whose exact duration max - min exceeds 7 days (by hours or minutes too) is
\* rejected, and no record is ever produced for it.
C2_LongerThan7DaysRejected ==
    (Resolved /\ ExactSpanMinutes > 7 * 1440) =>
        (pc = "stopped" /\ signin_summary = <<>>)

\* C3: in every accepted batch the calendar date of every sign-in lies in the resolved
\* window [start, end].
C3_AcceptedBatchInsideWindow ==
    pc \in {"loaded", "processed", "displayed"} =>
        \A i \in DOMAIN uploaded_files :
            /\ window.start_date.ord <= RawOrd(uploaded_files[i])
            /\ RawOrd(uploaded_files[i]) <= window.end_date.ord

\* C4: the window starts on a Sunday at 01:00, ends 6 days later (a Saturday) and is the
\* Sunday-to-Saturday week containing the date of the earliest timestamp, so its Tuesday,
\* Wednesday and Thursday are inside it; timestamps all within 2024-06-09..2024-06-15 give
\* start 2024-06-09 and end 2024-06-15.
C4_WindowIsWeekOfEarliest ==
    Resolved =>
        /\ (window.start_date.ord + 6) % 7 = 6
        /\ window.start_date.minute = 60
        /\ window.end_date = [ord |-> window.start_date.ord + 6, minute |-> 60]
        /\ (window.end_date.ord + 6) % 7 = 5
        /\ window.start_date.ord <= EarliestOrd
        /\ EarliestOrd <= window.end_date.ord
        /\ \A o \in window.start_date.ord .. window.end_date.ord :
               IsCoreOrd(o) => [ord |-> o, minute |-> 60] \in date_range_of(window)
        /\ Cardinality({o \in window.start_date.ord .. window.end_date.ord : IsCoreOrd(o)}) = 3
        /\ (ymd2ord(2024, 6, 9) <= EarliestOrd /\ LatestOrd <= ymd2ord(2024, 6, 15)) =>
               /\ ord2ymd(window.start_date.ord) = <<2024, 6, 9>>
               /\ ord2ymd(window.end_date.ord) = <<2024, 6, 15>>

\* C4 witness: an accepted batch running from Sunday 2024-06-09 to Saturday 2024-06-15.
C4_Witness ==
    /\ pc = "loaded"
    /\ Len(uploaded_files) = 2
    /\ ord2ymd(EarliestOrd) = <<2024, 6, 9>>
    /\ ord2ymd(LatestOrd) = <<2024, 6, 15>>
    /\ ord2ymd(window.start_date.ord) = <<2024, 6, 9>>

\* C5 as stated: a batch whose earliest timestamp is on a Sunday gets the window that
\* starts the following Sunday (2024-06-09 alone gives a start of 2024-06-16).
C5_SundayStartsFollowingWeek ==
    (Resolved /\ (EarliestOrd + 6) % 7 = 6) =>
        window.start_date.ord = EarliestOrd + 7

\* C5 amended: a batch whose earliest timestamp is on a Sunday is not anchored to the
\* Sunday before: its window starts on that very Sunday and ends the Saturday after
\* (2024-06-09 alone gives 2024-06-09..2024-06-15).
C5_SundayStartsOwnWeek ==
    (Resolved /\ (EarliestOrd + 6) % 7 = 6) =>
        /\ window.start_date.ord = EarliestOrd
        /\ window.end_date.ord = EarliestOrd + 6
        /\ (ord2ymd(EarliestOrd) = <<2024, 6, 9>> =>
               /\ ord2ymd(window.start_date.ord) = <<2024, 6, 9>>
               /\ ord2ymd(window.end_date.ord) = <<2024, 6, 15>>)

\* C5 witness: a single sign-in on Sunday 2024-06-09 has been resolved.
C5_Witness ==
    /\ pc = "loaded"
    /\ Len(uploaded_files) = 1
    /\ uploaded_files[1].In_time.m = 6
    /\ uploaded_files[1].In_time.d = 9
    /\ uploaded_files[1].In_time.Y = 2024
    /\ ord2ymd(window.start_date.ord) = <<2024, 6, 9>>

\* C6: pto_count is the number of leave dates, over all PTO records under exactly the
\* entry's pto_name, that fall on Tue/Wed/Thu inside [window.start, window.end]; nothing
\* else reduces the adjusted requirement.
C6_PtoCountIsQualifyingLeave ==
    \A i \in Aggregated :
        LET n == Cardinality(QualifyingPto(employees_df[i].JW_NAME))
        IN  /\ signin_summary[i].USED_PTOs = n
            /\ signin_summary[i].SIGNIN_DETAILS.ptos = n
            /\ signin_summary[i].SIGNIN_DETAILS.required =
                   Max(0, employees_df[i].REQUIRED_DAYS - n)

\* C6 witness: two requests under the entry's name, the first with no qualifying date and
\* the second with one, next to nothing under another spelling; one PTO day is counted.
C6_Witness ==
    /\ pc = "loaded"
    /\ Len(signin_summary) = 1
    /\ Len(pto_calendar) = 2
    /\ pto_calendar[1] = [name |-> "Smith, A", leaveDates |-> <<<<2024, 6, 20>>>>]
    /\ pto_calendar[2] = [name |-> "Smith, A", leaveDates |-> <<<<2024, 6, 13>>>>]
    /\ employees_df[1].REQUIRED_DAYS = 3
    /\ signin_summary[1].USED_PTOs = 1
    /\ signin_summary[1].SIGNIN_DETAILS.required = 2

\* C7: adjusted_requirement = max(0, required_days - pto_count) and
\* 0 <= present_count <= adjusted_requirement in every record.
C7_AdjustedRequirementFloored ==
    \A i \in Aggregated :
        LET rec == signin_summary[i]
        IN  /\ rec.SIGNIN_DETAILS.required =
                   Max(0, employees_df[i].REQUIRED_DAYS - rec.SIGNIN_DETAILS.ptos)
            /\ 0 <= rec.SIGNIN_DETAILS.present
            /\ rec.SIGNIN_DETAILS.present <= rec.SIGNIN_DETAILS.required

\* C7 witness: more PTO than required days, with sign-ins on core days.
C7_Witness ==
    /\ pc = "loaded"
    /\ Len(signin_summary) = 1
    /\ signin_summary[1].SIGNIN_DETAILS.ptos > employees_df[1].REQUIRED_DAYS
    /\ employees_df[1].REQUIRED_DAYS > 0
    /\ CoreEvents(employees_df[1].FULL_NAME) # {}
    /\ signin_summary[1].SIGNIN_DETAILS.required = 0
    /\ signin_summary[1].SIGNIN_DETAILS.present = 0

\* C8: status is 'O' or 'X', and 'O' exactly when present_count >= adjusted_requirement;
\* an employee whose PTO covers the whole requirement passes without any sign-in.
C8_StatusIffRequirementMet ==
    \A i \in Aggregated :
        LET rec == signin_summary[i]
        IN  /\ rec.STATUS \in {"O", "X"}
            /\ rec.STATUS = "O" <=> rec.SIGNIN_DETAILS.present >= rec.SIGNIN_DETAILS.required
            /\ Cardinality(QualifyingPto(employees_df[i].JW_NAME)) >= employees_df[i].REQUIRED_DAYS
                   => rec.STATUS = "O"

\* C8 witness: a requirement fully covered by PTO, no sign-in of the employee, PASS.
C8_Witness ==
    /\ pc = "loaded"
    /\ Len(signin_summary) = 1
    /\ employees_df[1].REQUIRED_DAYS > 0
    /\ \A i \in DOMAIN uploaded_files : uploaded_files[i].Name # employees_df[1].FULL_NAME
    /\ signin_summary[1].SIGNIN_DETAILS.required = 0
    /\ signin_summary[1].SIGNIN_DAYS = <<"NO SIGNIN">>
    /\ signin_summary[1].STATUS = "O"

\* C9: process_signin returns exactly one record for each roster entry with
\* required_days > 0, none for an entry with required_days = 0, in roster order.
C9_OneRecordPerRequiredEntry ==
    pc = "processed" =>
        LET kept == {i \in DOMAIN employees_df : employees_df[i].REQUIRED_DAYS > 0}
        IN  /\ Len(signin_summary) = Cardinality(kept)
            /\ \E f \in [DOMAIN signin_summary -> kept] :
                   /\ \A a, b \in DOMAIN signin_summary : a < b => f[a] < f[b]
                   /\ \A k \in DOMAIN signin_summary :
                          /\ signin_summary[k].NAME = employees_df[f[k]].FULL_NAME
                          /\ signin_summary[k].DEPT = employees_df[f[k]].DEPARTMENT
                          /\ signin_summary[k].REQUIRED = employees_df[f[k]].REQUIRED_DAYS

\* C9 witness: an exempt entry first, then an entry whose PTO brings the adjusted
\* requirement to 0; only the second is returned.
C9_Witness ==
    /\ pc = "processed"
    /\ Len(employees_df) = 2
    /\ employees_df[1].REQUIRED_DAYS = 0
    /\ employees_df[2].REQUIRED_DAYS > 0
    /\ Len(signin_summary) = 1
    /\ signin_summary[1].NAME = employees_df[2].FULL_NAME
    /\ signin_summary[1].SIGNIN_DETAILS.required = 0

\* C10: absent_days is empty for PASS and is {Tue, Wed, Thu} minus the signed-in weekdays
\* for FAIL; required 3 with a sign-in on Tuesday and one on Wednesday gives 2 / 3, FAIL,
\* absent {Thu} without PTO, and 2 / 2 with PTOs=1, PASS, nothing absent with one PTO on
\* that week's Thursday.
C10_AbsentDays ==
    \A i \in Aggregated :
        LET rec  == signin_summary[i]
            row  == employees_df[i]
            npto == Cardinality(QualifyingPto(row.JW_NAME))
            TueWed == /\ row.REQUIRED_DAYS = 3
                      /\ Cardinality(CoreEvents(row.FULL_NAME)) = 2
                      /\ SignedLabels(row.FULL_NAME) = {"Tue", "Wed"}
        IN  /\ rec.STATUS = "O" => rec.ABSENT_DAYS = <<"N/A">>
            /\ rec.STATUS = "X" => AbsentSet(rec) = CoreLabels \ SignedLabels(row.FULL_NAME)
            /\ (TueWed /\ npto = 0) =>
                   /\ rec.SIGNIN_DETAILS = [present |-> 2, required |-> 3, ptos |-> 0]
                   /\ rec.STATUS = "X"
                   /\ rec.ABSENT_DAYS = <<"Thu">>
            /\ (TueWed /\ npto = 1) =>
                   /\ rec.SIGNIN_DETAILS = [present |-> 2, required |-> 2, ptos |-> 1]
                   /\ rec.STATUS = "O"
                   /\ AbsentSet(rec) = {}

\* C10 witness: Tuesday and Wednesday signed in, Thursday on PTO, required 3: PASS.
C10_Witness ==
    /\ pc = "loaded"
    /\ Len(signin_summary) = 1
    /\ employees_df[1].REQUIRED_DAYS = 3
    /\ SignedLabels(employees_df[1].FULL_NAME) = {"Tue", "Wed"}
    /\ signin_summary[1].PTO_DAYS = <<"Thu">>
    /\ signin_summary[1].STATUS = "O"
    /\ signin_summary[1].ABSENT_DAYS = <<"N/A">>

----------------------------------------------------------------------------
\* C11: every core operation (calculate_date_range inside load_signin_data,
\* get_pto_dates and process_employee_signin inside process_signin, and
\* process_signin itself) leaves the sign-in log, the roster and the PTO
\* calendar passed to it exactly as they were before the call, values and
\* column types alike.
C11_CoreOperationsSideEffectFree ==
    [][(LoadSigninData \/ ProcessEmployeeSignin \/ FilterRequired) =>
           /\ signin_df' = signin_df
           /\ employees_df' = employees_df
           /\ pto_calendar' = pto_calendar]_vars

\* the calendar day a "%m/%d/%Y" string names
OrdOfStr(s) == ymd2ord(s[3], s[1], s[2])

\* C12: in every record PRESENT lists each distinct core date the employee
\* signed in on exactly once, in ascending chronological order, also when
\* the week crosses a month or year boundary.
C12_PresentDatesChronological ==
    \A i \in Aggregated :
        LET P == signin_summary[i].PRESENT
        IN  /\ {OrdOfStr(P[k]) : k \in DOMAIN P} = CoreDates(employees_df[i].FULL_NAME)
            /\ \A j, k \in DOMAIN P : j < k => OrdOfStr(P[j]) < OrdOfStr(P[k])

\* the uploaded rows of one employee and the PTO records under one PTO name
OwnRows(name) == SelectSeq(uploaded_files, LAMBDA r : r.Name = name)

OwnPto(pto_name) == SelectSeq(pto_calendar, LAMBDA r : r.name = pto_name)

RosterNames == {employees_df[i].FULL_NAME : i \in DOMAIN employees_df}

CoveredDays(row) ==
    {o \in CoreDates(row.FULL_NAME) : window.start_date.ord <= o /\ o <= window.end_date.ord}
        \cup {ymd2ord(pto_calendar[e[1]].leaveDates[e[2]][1],
                      pto_calendar[e[1]].leaveDates[e[2]][2],
                      pto_calendar[e[1]].leaveDates[e[2]][3]) : e \in QualifyingPto(row.JW_NAME)}

\* C14: a record with status PASS for an entry requiring at most 3 days has
\* at least required_days distinct core weekdays of the window covered by a
\* sign-in or by a qualifying leave date.
C14_PassIsSound ==
    \A i \in Aggregated :
        (signin_summary[i].STATUS = "O" /\ employees_df[i].REQUIRED_DAYS <= 3) =>
            Cardinality(CoveredDays(employees_df[i])) >= employees_df[i].REQUIRED_DAYS

\* what signin.py's process_signin returns for the inputs and the week main.py resolved
SigninPyRecords ==
    keep_required([i \in DOMAIN employees_df |->
                      process_employee_signin(employees_df[i], parse_in_time(uploaded_files),
                                              main_date_range(uploaded_files), pto_calendar)])

\* name, status and details of every record of a table
Emitted(table) ==
    {<<table[k].NAME, table[k].STATUS, table[k].SIGNIN_DETAILS>> : k \in DOMAIN table}

\* C15: on the same roster, sign-in log, PTO calendar and week window the
\* table main.py keeps after its zero-requirement filter holds the same
\* employees, each with the same status and the same details, as the
\* summary signin.py's process_signin returns.
C15_CopiesAgree ==
    pc = "main_py" => Emitted(signin_table) = Emitted(SigninPyRecords)

\* C16 as stated: every FAIL record names at least one absent day, whatever
\* non-negative required_days the roster entry has.
C16_FailNamesAnAbsentDay ==
    \A i \in Aggregated :
        signin_summary[i].STATUS = "X" => signin_summary[i].ABSENT_DAYS # <<"N/A">>

\* C16, amended: every FAIL record of a roster entry that requires no more
\* days than there are core days names at least one absent day.
C16_FailWithinCoreDaysNamesAnAbsentDay ==
    \A i \in Aggregated :
        (signin_summary[i].STATUS = "X" /\ employees_df[i].REQUIRED_DAYS <= Len(day_order)) =>
            /\ signin_summary[i].ABSENT_DAYS # <<"N/A">>
            /\ AbsentSet(signin_summary[i]) # {}

\* C16 witness: required 2, a single sign-in on the Wednesday, no PTO: FAIL naming Tue and Thu.
C16_Witness ==
    /\ pc = "loaded"
    /\ Len(signin_summary) = 1
    /\ employees_df[1].REQUIRED_DAYS = 2
    /\ Cardinality(CoreEvents(employees_df[1].FULL_NAME)) = 1
    /\ signin_summary[1].SIGNIN_DAYS = <<"Wed">>
    /\ signin_summary[1].USED_PTOs = 0
    /\ signin_summary[1].STATUS = "X"
    /\ signin_summary[1].ABSENT_DAYS = <<"Tue", "Thu">>

\* the distinct calendar days among the qualifying leave dates under a PTO name
QualifyingDays(pto_name) ==
    {ymd2ord(pto_calendar[e[1]].leaveDates[e[2]][1],
             pto_calendar[e[1]].leaveDates[e[2]][2],
             pto_calendar[e[1]].leaveDates[e[2]][3]) : e \in QualifyingPto(pto_name)}

\* the rows of the summary the USED_PTOs filter keeps for an option, the other filters on "All"
SelectedBy(option) ==
    apply_filters(signin_summary,
                  [STATUS |-> "All", OFFICE |-> "All", NO_SIGNIN |-> "All", USED_PTOs |-> option])

IsSelectedBy(rec, option) == \E j \in DOMAIN SelectedBy(option) : SelectedBy(option)[j] = rec

\* C17: in every record USED_PTOs is the number of distinct qualifying
\* calendar dates, between 0 and 3, and every record of the summary is kept
\* by exactly one of the options 'None used' and 'PTO used' of the
\* USED_PTOs filter.
C17_PtoCountBoundedAndFilterPartitions ==
    /\ \A i \in Aggregated :
          /\ signin_summary[i].USED_PTOs \in 0..3
          /\ signin_summary[i].USED_PTOs = Cardinality(QualifyingDays(employees_df[i].JW_NAME))
    /\ pc = "processed" =>
          \A k \in DOMAIN signin_summary :
              IsSelectedBy(signin_summary[k], "None used")
                  # IsSelectedBy(signin_summary[k], "PTO used")

\* st.session_state.get("password_correct", False)
PasswordCorrect == ss_get(session_state, "password_correct", FALSE)

\* roster and PTO loading, file processing and display find password_correct True
GateHolds ==
    pc \in {"authed", "upload", "combined", "stopped", "loaded", "processed", "displayed"}
        => PasswordCorrect

\* one step of the app, as far as the gate is concerned
GateStep ==
    /\ (~PasswordCorrect /\ PasswordCorrect') =>
           /\ pc = "typed"
           /\ session_state["password"] = Secret
           /\ "password" \notin DOMAIN session_state'
    /\ (pc = "typed" /\ session_state["password"] # Secret) =>
           /\ "password_correct" \in DOMAIN session_state'
           /\ session_state'["password_correct"] = FALSE
           /\ session_state'["password"] = ""
    /\ PasswordCorrect => PasswordCorrect'

\* C18: the roster and the PTO calendar are loaded and files processed and
\* displayed only while password_correct is True; password_correct turns
\* True only when password_entered finds the typed text equal to the
\* secret, and the text is then deleted from the session state; a wrong
\* text sets it to False and empties the input; once True it is never set
\* back to False.
C18_PasswordGate == []GateHolds /\ [][GateStep]_vars

\* C18 witness: a summary is on display, password_correct is True and the typed password is
\* no longer in the session state
C18_Witness ==
    /\ pc = "displayed"
    /\ filtered_df # <<>>
    /\ DOMAIN session_state = {"password_correct"}
    /\ session_state["password_correct"] = TRUE

====
